---- MODULE Spec2Model ----
(***************************************************************************)
(* A model of the sentence-embedding pipeline (models-api/src/bert.rs:     *)
(* Model::from_stream, Model::get_embeddings) and of the chat request      *)
(* builder's role and message conversion (src/llm/openai.rs: Role,         *)
(* Message::into_vec).                                                     *)
(*                                                                         *)
(* Tensors are sequences (of sequences) of numbers.  A float is an exact   *)
(* rational [num, den] in lowest terms; a component of an L2-normalised    *)
(* vector x / sqrt(s) is kept as its sign and its square x^2 / s.          *)
(***************************************************************************)
EXTENDS Integers, Sequences, FiniteSets, TLC

VARIABLES
    model,       \* the Model the caller holds: None or Some([bert, tokenizer])
    loadArgs,    \* the buffers given to the last from_stream call
    loadResult,  \* what the last from_stream call returned
    last,        \* the last get_embeddings call: its arguments and what it returned
    pairs,       \* the argument of the last Message::into_vec call
    messages     \* the Vec<Message> the last Message::into_vec call returned

vars == <<model, loadArgs, loadResult, last, pairs, messages>>

\* the longest batch handed to get_embeddings
MaxBatch == 2
\* the longest list handed to Message::into_vec
MaxPrompt == 2

----------------------------------------------------------------------------
(* Option and Result *)

None == [some |-> FALSE]
Some(x) == [some |-> TRUE, val |-> x]
Ok(x) == [ok |-> TRUE, val |-> x]
Err(stage, e) == [ok |-> FALSE, stage |-> stage, err |-> e]

----------------------------------------------------------------------------
(* Numbers *)

RECURSIVE GCD(_, _)
GCD(a, b) == IF b = 0 THEN a ELSE GCD(b, a % b)

Abs(x) == IF x < 0 THEN 0 - x ELSE x

\* n / d for d # 0, in lowest terms with a positive denominator
Rat(n, d) ==
    LET g == GCD(Abs(n), Abs(d))
        s == IF d < 0 THEN 0 - 1 ELSE 1
    IN [num |-> (s * n) \div g, den |-> (s * d) \div g]

RatAdd(x, y) == Rat(x.num * y.den + y.num * x.den, x.den * y.den)
RatSqr(x) == Rat(x.num * x.num, x.den * x.den)
RatDivInt(x, n) == Rat(x.num, x.den * n)
RatOfInt(n) == Rat(n, 1)
Sign(x) == IF x.num > 0 THEN 1 ELSE IF x.num < 0 THEN 0 - 1 ELSE 0

RECURSIVE SumSeq(_)
SumSeq(s) == IF s = <<>> THEN 0 ELSE Head(s) + SumSeq(Tail(s))

RECURSIVE RatSum(_)
RatSum(s) == IF s = <<>> THEN RatOfInt(0) ELSE RatAdd(Head(s), RatSum(Tail(s)))

RECURSIVE MaxOf(_)
MaxOf(s) == IF Len(s) = 1 THEN s[1]
            ELSE LET m == MaxOf(Tail(s)) IN IF s[1] > m THEN s[1] ELSE m

----------------------------------------------------------------------------
(* The buffers a caller can hand to from_stream *)

\* a tokenizer document's vocabulary: no unknown-word token
Vocab == ("[PAD]" :> 0) @@ ("[CLS]" :> 1) @@ ("[SEP]" :> 2) @@
         ("a" :> 3) @@ ("b" :> 4) @@ ("c" :> 5)

BatchLongest == [kind |-> "BatchLongest", size |-> 0]
Fixed(n) == [kind |-> "Fixed", size |-> n]

\* PaddingParams { strategy: BatchLongest, ..Default::default() }
DefaultBatchLongest == [strategy |-> BatchLongest, pad_id |-> 0]

\* bytes that do not parse as the document they are passed as
Malformed == [malformed |-> TRUE]

TokenizerBuffers ==
    { Malformed,
      [vocab |-> Vocab, padding |-> None],
      [vocab |-> Vocab, padding |-> Some([strategy |-> Fixed(4), pad_id |-> 2])],
      [vocab |-> Vocab, padding |-> Some([strategy |-> BatchLongest, pad_id |-> 0])] }

ConfigBuffers ==
    { Malformed, [hidden_size |-> 2, max_position_embeddings |-> 4] }

\* a safetensors archive is summarised by the hidden size its tensors have
WeightsBuffers ==
    { Malformed, [hidden_size |-> 2], [hidden_size |-> 3] }

NoArgs == [weights |-> None, tokenizer |-> None, config |-> None]

----------------------------------------------------------------------------
(* Model::from_stream *)

\* BertModel::load(vb, &config): the archive's tensors must have the shapes
\* the configuration names
BertModel_load(vb, config) ==
    IF vb.hidden_size # config.hidden_size
    THEN Err("BertModel::load", "WeightLoadError")
    ELSE Ok([weights |-> vb, config |-> config])

\* a loader that reads the configuration before the weights
from_stream_config_first(weights, tokenizer, config) ==
    IF config = Malformed THEN Err("config", "ConfigError")
    ELSE IF weights = Malformed THEN Err("weights", "SafeTensorError")
    ELSE IF tokenizer = Malformed THEN Err("tokenizer", "TokenizerError")
    ELSE LET bert == BertModel_load(weights, config)
         IN IF ~bert.ok THEN bert
            ELSE Ok([bert |-> bert.val, tokenizer |-> tokenizer])

from_stream(weights, tokenizer, config) ==
    IF weights = Malformed THEN Err("weights", "SafeTensorError")
    ELSE IF config = Malformed THEN Err("config", "ConfigError")
    ELSE IF tokenizer = Malformed THEN Err("tokenizer", "TokenizerError")
    ELSE LET bert == BertModel_load(weights, config)
         IN IF ~bert.ok THEN bert
            ELSE Ok([bert |-> bert.val, tokenizer |-> tokenizer])

----------------------------------------------------------------------------
(* The tokenizer *)

Sentences == {"a", "b c", "a b c", "a z"}

\* whitespace pre-tokenisation of the sentences above
WordsOf == ("a" :> <<"a">>) @@ ("b c" :> <<"b", "c">>) @@
           ("a b c" :> <<"a", "b", "c">>) @@ ("a z" :> <<"a", "z">>)

Batches == UNION { [1..n -> Sentences] : n \in 0..MaxBatch }

\* Tokenizer::encode(sentence, add_special_tokens = true), before padding: a word
\* the vocabulary lacks cannot be encoded
encode(tokenizer, sentence) ==
    LET words == WordsOf[sentence]
    IN IF \E i \in 1..Len(words) : words[i] \notin DOMAIN tokenizer.vocab
       THEN Err("encode_batch", "TokenizeError")
       ELSE Ok(<<tokenizer.vocab["[CLS]"]>>
               \o [i \in 1..Len(words) |-> tokenizer.vocab[words[i]]]
               \o <<tokenizer.vocab["[SEP]"]>>)

\* an encoding padded on the right with pad_id up to length n (never cut)
pad(ids, n, pad_id) ==
    IF Len(ids) >= n THEN ids
    ELSE ids \o [i \in 1..(n - Len(ids)) |-> pad_id]

\* the length the padding parameters pad a batch of encodings to
pad_length(params, encodings) ==
    IF params.strategy.kind = "Fixed" THEN params.strategy.size
    ELSE MaxOf([i \in 1..Len(encodings) |-> Len(encodings[i])])

pad_encodings(padding, encodings) ==
    IF ~padding.some \/ encodings = <<>> THEN encodings
    ELSE LET n == pad_length(padding.val, encodings)
         IN [i \in 1..Len(encodings) |-> pad(encodings[i], n, padding.val.pad_id)]

\* a tokenizer that returns the batch's encodings in reverse order
encode_batch_reversed(tokenizer, sentences) ==
    LET each == [i \in 1..Len(sentences) |-> encode(tokenizer, sentences[i])]
        N == Len(sentences)
    IN IF \E i \in 1..N : ~each[i].ok
       THEN Err("encode_batch", "TokenizeError")
       ELSE Ok(pad_encodings(tokenizer.padding, [i \in 1..N |-> each[N + 1 - i].val]))

\* a tokenizer that drops the sentences it cannot encode and encodes the rest
encode_batch_skip(tokenizer, sentences) ==
    LET good == SelectSeq(sentences, LAMBDA x : encode(tokenizer, x).ok)
    IN Ok(pad_encodings(tokenizer.padding, [i \in 1..Len(good) |-> encode(tokenizer, good[i]).val]))

\* Tokenizer::encode_batch(sentences, true): every sentence encoded, in order, then
\* the batch padded; one sentence that cannot be encoded fails the batch
encode_batch(tokenizer, sentences) ==
    LET each == [i \in 1..Len(sentences) |-> encode(tokenizer, sentences[i])]
    IN IF \E i \in 1..Len(sentences) : ~each[i].ok
       THEN Err("encode_batch", "TokenizeError")
       ELSE Ok(pad_encodings(tokenizer.padding, [i \in 1..Len(sentences) |-> each[i].val]))

\* a padding step that leaves a configured strategy as it is
set_padding_keep_configured(tokenizer) ==
    IF tokenizer.padding.some THEN tokenizer
    ELSE [tokenizer EXCEPT !.padding = Some(DefaultBatchLongest)]

\* a padding step that clears a configured padding
set_padding_toggle(tokenizer) ==
    IF tokenizer.padding.some THEN [tokenizer EXCEPT !.padding = None]
    ELSE [tokenizer EXCEPT !.padding = Some(DefaultBatchLongest)]

\* get_embeddings, the padding step: a configured padding has its strategy
\* overwritten, an unset one becomes the default parameters with BatchLongest
set_padding(tokenizer) ==
    IF tokenizer.padding.some
    THEN [tokenizer EXCEPT !.padding = Some([tokenizer.padding.val EXCEPT !.strategy = BatchLongest])]
    ELSE [tokenizer EXCEPT !.padding = Some(DefaultBatchLongest)]

----------------------------------------------------------------------------
(* The tensor runtime and the encoder *)

\* Tensor::stack(&token_ids, 0): needs at least one tensor, all of one shape
Tensor_stack(rows) ==
    IF rows = <<>> \/ \E i \in 1..Len(rows) : Len(rows[i]) # Len(rows[1])
    THEN Err("stack", "InferenceError")
    ELSE Ok(rows)

zeros_like(t) == [i \in 1..Len(t) |-> [j \in 1..Len(t[i]) |-> 0]]

\* the hidden state of position t of one row, component h: the encoder is
\* opaque; it reads the token at t, the position and every token of the row
\* (padding tokens included, nothing masks them) and the token type
hidden_state(row, types, t, h) == row[t] * h + t + SumSeq(row) + types[t]

\* BertModel::forward(&token_ids, &token_type_ids): (N, T) -> (N, T, H); the
\* position embeddings cover max_position_embeddings positions
forward(bert, token_ids, token_type_ids) ==
    LET T == Len(token_ids[1])
    IN IF T > bert.config.max_position_embeddings
       THEN Err("forward", "InferenceError")
       ELSE Ok([i \in 1..Len(token_ids) |->
                  [t \in 1..T |->
                     [h \in 1..bert.config.hidden_size |->
                        hidden_state(token_ids[i], token_type_ids[i], t, h)]]])

\* a mean over the batch axis' size instead of the token axis'
mean_pool_by_rows(embeddings) ==
    LET n_sentence == Len(embeddings)
        n_tokens == Len(embeddings[1])
        hidden_size == Len(embeddings[1][1])
    IN [i \in 1..n_sentence |->
          [h \in 1..hidden_size |->
             RatDivInt(RatOfInt(SumSeq([t \in 1..n_tokens |-> embeddings[i][t][h]])),
                       n_sentence)]]

\* embeddings.sum(1) / (n_tokens as f64)
mean_pool(embeddings) ==
    LET n_sentence == Len(embeddings)
        n_tokens == Len(embeddings[1])
        hidden_size == Len(embeddings[1][1])
    IN [i \in 1..n_sentence |->
          [h \in 1..hidden_size |->
             RatDivInt(RatOfInt(SumSeq([t \in 1..n_tokens |-> embeddings[i][t][h]])),
                       n_tokens)]]

NaN == [nan |-> TRUE]

\* x / sqrt(s): its sign and its square; 0 / 0 is NaN
div_sqrt(x, s) ==
    IF s.num = 0 THEN NaN
    ELSE [sign |-> Sign(x), sq |-> Rat(RatSqr(x).num * s.den, RatSqr(x).den * s.num)]

\* embeddings.broadcast_div(&embeddings.sqr().sum_keepdim(1).sqrt())
l2_normalize(embeddings) ==
    [i \in 1..Len(embeddings) |->
       LET s == RatSum([h \in 1..Len(embeddings[i]) |-> RatSqr(embeddings[i][h])])
       IN [h \in 1..Len(embeddings[i]) |-> div_sqrt(embeddings[i][h], s)]]

\* embeddings.to_vec2(): the rows of the (N, H) tensor, in order
to_vec2(embeddings) == [i \in 1..Len(embeddings) |-> embeddings[i]]

----------------------------------------------------------------------------
(* Model::get_embeddings *)

\* get_embeddings after the padding step: every `?` returns the stage's error
\* at once; stages lists the stages entered, in order
run_stages(bert, tokenizer, sentences, normalize_embeddings) ==
    LET tokens == encode_batch(tokenizer, sentences)
    IN IF ~tokens.ok THEN [result |-> tokens, stages |-> <<"encode_batch">>]
       ELSE
       LET token_ids == Tensor_stack(tokens.val)
       IN IF ~token_ids.ok
          THEN [result |-> token_ids, stages |-> <<"encode_batch", "stack">>]
          ELSE
          LET token_type_ids == zeros_like(token_ids.val)
              embeddings == forward(bert, token_ids.val, token_type_ids)
          IN IF ~embeddings.ok
             THEN [result |-> embeddings, stages |-> <<"encode_batch", "stack", "forward">>]
             ELSE
             LET pooled == mean_pool(embeddings.val)
                 out == IF normalize_embeddings THEN l2_normalize(pooled) ELSE pooled
             IN [result |-> Ok(to_vec2(out)),
                 stages |-> <<"encode_batch", "stack", "forward", "pool", "to_vec2">>]

\* a pipeline that encodes with the padding it finds and sets the padding afterwards
get_embeddings_late_padding(self, sentences, normalize_embeddings) ==
    LET r == run_stages(self.bert, self.tokenizer, sentences, normalize_embeddings)
    IN [self |-> [self EXCEPT !.tokenizer = set_padding(self.tokenizer)],
        result |-> r.result, stages |-> r.stages]

\* a pipeline that loses its padding parameters when a stage fails
get_embeddings_poisoned(self, sentences, normalize_embeddings) ==
    LET tokenizer == set_padding(self.tokenizer)
        r == run_stages(self.bert, tokenizer, sentences, normalize_embeddings)
    IN [self |-> [self EXCEPT !.tokenizer =
                     IF r.result.ok THEN tokenizer ELSE [tokenizer EXCEPT !.padding = None]],
        result |-> r.result, stages |-> r.stages]

\* Model::get_embeddings(&mut self, sentences, normalize_embedding): the Model it
\* leaves, the result it returns and the stages it entered
get_embeddings(self, sentences, normalize_embeddings) ==
    LET tokenizer == set_padding(self.tokenizer)
        r == run_stages(self.bert, tokenizer, sentences, normalize_embeddings)
    IN [self |-> [self EXCEPT !.tokenizer = tokenizer],
        result |-> r.result, stages |-> r.stages]

----------------------------------------------------------------------------
(* The chat request builder *)

RoleStrings == {"system", "user", "assistant", "function", "ai", ""}
Texts == {"Paris", "What is the capital of France"}

PromptPairs == UNION { [1..n -> RoleStrings \X Texts] : n \in 0..MaxPrompt }

\* a conversion that lacks the "function" arm
Role_from_no_function(role) ==
    CASE role = "system" -> [R |-> "System"]
      [] role = "user" -> [R |-> "User"]
      [] role = "assistant" -> [R |-> "Assistant"]
      [] OTHER -> [R |-> "System"]

\* impl From<&str> for Role
Role_from(role) ==
    CASE role = "system" -> [R |-> "System"]
      [] role = "user" -> [R |-> "User"]
      [] role = "assistant" -> [R |-> "Assistant"]
      [] role = "function" -> [R |-> "Function"]
      [] OTHER -> [R |-> "System"]

\* impl Display for Role
Role_fmt(self) ==
    CASE self.R = "System" -> "system"
      [] self.R = "User" -> "user"
      [] self.R = "Assistant" -> "assistant"
      [] self.R = "Function" -> "function"

Message_new(role, message) == [role |-> role, message |-> message]

\* Message::into_vec: one push per pair, in the order of the loop
RECURSIVE into_vec(_)
into_vec(v) ==
    IF v = <<>> THEN <<>>
    ELSE <<Message_new(Role_from(Head(v)[1]), Head(v)[2])>> \o into_vec(Tail(v))

----------------------------------------------------------------------------
(* The state machines *)

NoCall == [called |-> FALSE]

Init ==
    /\ model = None
    /\ loadArgs = NoArgs
    /\ loadResult = None
    /\ last = NoCall
    /\ pairs = <<>>
    /\ messages = <<>>

\* a caller without a Model calls Model::from_stream
FromStream ==
    /\ ~model.some
    /\ \E weights \in WeightsBuffers, tokenizer \in TokenizerBuffers, config \in ConfigBuffers :
          LET r == from_stream(weights, tokenizer, config)
          IN /\ loadArgs' = [weights |-> weights, tokenizer |-> tokenizer, config |-> config]
             /\ loadResult' = Some(r)
             /\ model' = IF r.ok THEN Some(r.val) ELSE None
    /\ UNCHANGED <<last, pairs, messages>>

\* the caller calls get_embeddings on its Model
GetEmbeddings ==
    /\ model.some
    /\ \E sentences \in Batches, normalize \in BOOLEAN :
          LET r == get_embeddings(model.val, sentences, normalize)
          IN /\ model' = Some(r.self)
             /\ last' = [called |-> TRUE,
                         sentences |-> sentences,
                         normalize |-> normalize,
                         result |-> r.result,
                         stages |-> r.stages,
                         padding_before |-> model.val.tokenizer.padding,
                         after_fail |-> last.called /\ ~last.result.ok]
    /\ UNCHANGED <<loadArgs, loadResult, pairs, messages>>

Next == FromStream \/ GetEmbeddings

Spec == Init /\ [][Next]_vars

\* a caller builds a prompt with Message::into_vec(v)
IntoVec ==
    /\ \E v \in PromptPairs :
          /\ pairs' = v
          /\ messages' = into_vec(v)
    /\ UNCHANGED <<model, loadArgs, loadResult, last>>

NextChat == IntoVec

SpecChat == Init /\ [][NextChat]_vars

----------------------------------------------------------------------------
(* What the properties below read *)

\* the padding configuration of the loaded pipeline's tokenizer
Padding == model.val.tokenizer.padding

\* the Model as from_stream returned it, before any get_embeddings call
AsLoaded == from_stream(loadArgs.weights, loadArgs.tokenizer, loadArgs.config).val

\* the token length of sentence s, special tokens included
TokenLen(s) == Len(WordsOf[s]) + 2

Encodable(s) == \A k \in 1..Len(WordsOf[s]) : WordsOf[s][k] \in DOMAIN Vocab

\* the token length of the longest sentence of a non-empty batch
Longest(batch) == MaxOf([i \in 1..Len(batch) |-> TokenLen(batch[i])])

\* the token ids of sentence i of the batch, padded to the batch's longest
PaddedRow(batch, i) ==
    pad(encode(model.val.tokenizer, batch[i]).val, Longest(batch), Padding.val.pad_id)

StageOrder == <<"encode_batch", "stack", "forward", "pool", "to_vec2">>

----------------------------------------------------------------------------
(* C1 *)

\* C1 (as claimed): get_embeddings on an empty sentence sequence returns a
\* successful empty result, whatever normalize is, and enters neither
\* encode_batch nor the forward pass.
C1_EmptyBatchReturnsEmptyUntouched ==
    (last.called /\ last.sentences = <<>>) =>
        /\ last.result = Ok(<<>>)
        /\ \A k \in 1..Len(last.stages) : last.stages[k] \notin {"encode_batch", "forward"}

----------------------------------------------------------------------------
(* C2 *)

\* C2 (as claimed): a padding configuration that was set when get_embeddings was
\* called is left unchanged by the call; an unset one becomes batch-longest.
C2_ConfiguredPaddingLeftAsIs ==
    last.called =>
        IF last.padding_before.some
        THEN Padding = last.padding_before
        ELSE Padding = Some(DefaultBatchLongest)

\* C2 (amended): every get_embeddings call leaves the padding strategy
\* batch-longest: an unset configuration becomes the default parameters with
\* batch-longest, and a configured one keeps its other parameters (the pad id)
\* and has its strategy overwritten with batch-longest.
C2_StrategyForcedToBatchLongest ==
    last.called =>
        IF last.padding_before.some
        THEN Padding = Some([strategy |-> BatchLongest,
                             pad_id |-> last.padding_before.val.pad_id])
        ELSE Padding = Some([strategy |-> BatchLongest, pad_id |-> 0])

\* a call found a fixed-length strategy from the tokenizer document and replaced it
C2_Witness ==
    /\ last.called
    /\ last.padding_before = Some([strategy |-> Fixed(4), pad_id |-> 2])
    /\ Padding.val.strategy = BatchLongest
    /\ Padding.val.pad_id = 2

----------------------------------------------------------------------------
(* C3 *)

\* C3 (as claimed): over the calls on one pipeline the padding configuration
\* never returns to unset and, once configured, every call leaves it exactly
\* as it was.
C3_ConfiguredPaddingNeverChanges ==
    [][(model.some /\ model'.some) =>
          /\ Padding.some => Padding'.some
          /\ Padding.some => Padding' = Padding]_vars

\* C3 (amended): the padding configuration changes value at most once, in the
\* first get_embeddings call: until a call has run it is what the tokenizer
\* document configured, it never returns to unset, and once a call has run every
\* later call, successful or failing, leaves it exactly as it was.
C3_PaddingChangesOnlyInFirstCall ==
    /\ []((model.some /\ ~last.called) => Padding = loadArgs.tokenizer.padding)
    /\ [][(model.some /\ model'.some) =>
             /\ Padding.some => Padding'.some
             /\ last.called => Padding' = Padding]_vars

\* a later call on a pipeline whose first call replaced the document's padding,
\* after a failed call
C3_Witness ==
    /\ last.called
    /\ last.after_fail
    /\ last.padding_before # loadArgs.tokenizer.padding
    /\ Padding = last.padding_before

----------------------------------------------------------------------------
(* C4 *)

\* the embedding of one padded row on its own: forward pass, pooling and
\* normalisation of a batch of that single row
RowEmbedding(row, normalize) ==
    LET pooled == mean_pool(forward(model.val.bert, <<row>>, zeros_like(<<row>>)).val)
    IN (IF normalize THEN l2_normalize(pooled) ELSE pooled)[1]

\* C4: a successful get_embeddings call on N >= 1 sentences returns exactly N
\* vectors, and vector i is the embedding computed from the (padded) tokens of
\* input sentence i.
C4_OneVectorPerSentenceInOrder ==
    (last.called /\ last.result.ok) =>
        /\ Len(last.result.val) = Len(last.sentences)
        /\ \A i \in 1..Len(last.sentences) :
              last.result.val[i] = RowEmbedding(PaddedRow(last.sentences, i), last.normalize)

\* two different sentences embedded in one call, with different vectors
C4_Witness ==
    /\ last.called
    /\ last.result.ok
    /\ last.sentences = <<"b c", "a">>
    /\ Len(last.result.val) = 2
    /\ last.result.val[1] # last.result.val[2]

----------------------------------------------------------------------------
(* C5 *)

\* C5: with normalize false, component h of output vector i is the sum over all
\* T positions of the padded row of sentence i (padding positions included) of
\* the hidden state's component h, divided by T, where T is the token length of
\* the longest sentence of the batch.
C5_MeanOverPaddedLength ==
    (last.called /\ last.result.ok /\ ~last.normalize) =>
        LET T == Longest(last.sentences)
        IN \A i \in 1..Len(last.sentences) :
              LET row == PaddedRow(last.sentences, i)
                  types == [t \in 1..T |-> 0]
              IN /\ Len(row) = T
                 /\ DOMAIN last.result.val[i] = 1..model.val.bert.config.hidden_size
                 /\ \A h \in 1..model.val.bert.config.hidden_size :
                       last.result.val[i][h] =
                          Rat(SumSeq([t \in 1..T |-> hidden_state(row, types, t, h)]), T)

\* "a" pooled next to the longer "b c" differs from "a" pooled alone on the
\* same pipeline
C5_Witness ==
    /\ last.called
    /\ last.result.ok
    /\ ~last.normalize
    /\ last.sentences = <<"a", "b c">>
    /\ Len(PaddedRow(last.sentences, 1)) > TokenLen("a")
    /\ last.result.val[1] # get_embeddings(model.val, <<"a">>, FALSE).result.val[1]

----------------------------------------------------------------------------
(* C6 *)

\* C6: a get_embeddings call fails atomically.  The stages entered are a prefix
\* of the pipeline's order, each entered once; a failed call stops at the stage
\* whose failure it returns and carries no embeddings; a batch with a sentence
\* that cannot be encoded fails in encode_batch, and an encodable batch longer
\* than the encoder's positions fails in the forward pass.
C6_FailsAtomicallyAtFirstFailure ==
    last.called =>
        /\ \E k \in 1..Len(StageOrder) : last.stages = SubSeq(StageOrder, 1, k)
        /\ last.result.ok => last.stages = StageOrder
        /\ ~last.result.ok =>
              /\ last.result.stage = last.stages[Len(last.stages)]
              /\ DOMAIN last.result = {"ok", "stage", "err"}
        /\ (\E i \in 1..Len(last.sentences) : ~Encodable(last.sentences[i])) =>
              /\ ~last.result.ok
              /\ last.result.stage = "encode_batch"
              /\ last.result.err = "TokenizeError"
        /\ ( /\ last.sentences # <<>>
             /\ \A i \in 1..Len(last.sentences) : Encodable(last.sentences[i])
             /\ Longest(last.sentences) > model.val.bert.config.max_position_embeddings ) =>
              /\ ~last.result.ok
              /\ last.result.stage = "forward"
              /\ last.result.err = "InferenceError"

\* a batch whose second sentence cannot be encoded: the first one's embedding is
\* not returned
C6_Witness ==
    /\ last.called
    /\ last.sentences = <<"a", "a z">>
    /\ ~last.result.ok
    /\ last.stages = <<"encode_batch">>

----------------------------------------------------------------------------
(* C7 *)

\* a batch no stage of a freshly loaded pipeline fails on
Processable(batch) ==
    /\ batch # <<>>
    /\ \A i \in 1..Len(batch) : Encodable(batch[i])
    /\ Longest(batch) <= AsLoaded.bert.config.max_position_embeddings

----------------------------------------------------------------------------
(* C8 *)

\* C8 (as claimed): loading with malformed config bytes fails with the
\* configuration error and constructs no Model, whatever the other buffers hold;
\* a Model is returned only when all three buffers parse and the encoder loads.
C8_MalformedConfigIsConfigError ==
    loadResult.some =>
        /\ loadArgs.config = Malformed =>
              /\ ~loadResult.val.ok
              /\ loadResult.val.err = "ConfigError"
              /\ ~model.some
        /\ model.some <=>
              /\ loadArgs.weights # Malformed
              /\ loadArgs.config # Malformed
              /\ loadArgs.tokenizer # Malformed
              /\ loadArgs.weights.hidden_size = loadArgs.config.hidden_size

\* C8 (amended): loading with malformed config bytes fails and constructs no
\* Model, whatever the other buffers hold; the error is the configuration error
\* when the weights buffer parses, and the weights' own error when it does not
\* (the weights are parsed first).  A Model is returned only when all three
\* buffers parse and the encoder loads, and an error with no Model otherwise.
C8_LoaderAllOrNothing ==
    loadResult.some =>
        /\ loadArgs.config = Malformed =>
              /\ ~loadResult.val.ok
              /\ ~model.some
              /\ loadResult.val.err =
                    IF loadArgs.weights = Malformed THEN "SafeTensorError" ELSE "ConfigError"
        /\ loadResult.val.ok <=>
              /\ loadArgs.weights # Malformed
              /\ loadArgs.config # Malformed
              /\ loadArgs.tokenizer # Malformed
              /\ loadArgs.weights.hidden_size = loadArgs.config.hidden_size
        /\ model.some <=> loadResult.val.ok
        /\ model.some => /\ model.val.bert.config = loadArgs.config
                         /\ model.val.bert.weights = loadArgs.weights

\* malformed config next to weights and a tokenizer that parse
C8_Witness ==
    /\ loadResult.some
    /\ loadArgs.config = Malformed
    /\ loadArgs.weights # Malformed
    /\ loadArgs.tokenizer # Malformed
    /\ loadResult.val = Err("config", "ConfigError")
    /\ ~model.some

----------------------------------------------------------------------------
(* C9 *)

\* C9: the result of a get_embeddings call is a function of the loaded pipeline,
\* the sentences and the normalize flag alone: every call, whatever calls came
\* before it, returns what that call returns as the first call on the pipeline
\* as loaded (the call that establishes the padding strategy), so two calls with
\* the same arguments return identical results.
C9_ResultIndependentOfHistory ==
    last.called =>
        last.result = get_embeddings(AsLoaded, last.sentences, last.normalize).result

\* a successful call on a pipeline whose padding an earlier call has changed
C9_Witness ==
    /\ last.called
    /\ last.padding_before # loadArgs.tokenizer.padding
    /\ last.result.ok
    /\ last.normalize
    /\ Len(last.sentences) = 2
    /\ last.sentences[1] # last.sentences[2]

----------------------------------------------------------------------------
(* C10 *)

KnownRoles == {"system", "user", "assistant", "function"}

\* C10: Message::into_vec returns one message per input pair, in the input
\* order, with the pair's text; a known role string converts to a Role that
\* displays as the same string, and every other string converts to the system
\* role.
C10_RolesRoundTripAndOrderKept ==
    /\ Len(messages) = Len(pairs)
    /\ \A i \in 1..Len(pairs) :
          /\ messages[i].message = pairs[i][2]
          /\ pairs[i][1] \in KnownRoles => Role_fmt(messages[i].role) = pairs[i][1]
          /\ pairs[i][1] \notin KnownRoles => messages[i].role = [R |-> "System"]

\* a "function" message followed by an "ai" message, which became a system message
C10_Witness ==
    /\ Len(pairs) = 2
    /\ pairs[1] = <<"function", "Paris">>
    /\ pairs[2][1] = "ai"
    /\ Role_fmt(messages[1].role) = "function"
    /\ Role_fmt(messages[2].role) = "system"

====
